---------------------------- MODULE Spec2Model ----------------------------
(***************************************************************************)
(* A model of the finite-difference electrostatic solver: the grid-to-     *)
(* system assembler (ElectrostaticSolver::buildFDMSystem), the index       *)
(* mapping, the reshape of a solution vector into a field, and the         *)
(* MatrixSolver entry points.                                              *)
(*                                                                         *)
(* Numbers of type double are modelled as exact rationals <<num, den>>     *)
(* with den > 0 in lowest terms; rounding is not modelled.  Matrices are   *)
(* records [rows, cols, coeff] with 0-based indices, as in the source.     *)
(***************************************************************************)
EXTENDS Integers, Sequences, FiniteSets, TLC

VARIABLES
    pc,              \* position of the calling program
    args,            \* the arguments of the call in progress / last made
    A,               \* the caller's coefficient matrix (MatrixXd&)
    b,               \* the caller's right-hand side (VectorXd&)
    err,             \* "none" or the exception that left the last call
    phi,             \* the solution vector
    phi_field,       \* the reshaped 2D field
    ret,             \* the value the last call returned, NoValue before any
    eigenvalues,     \* the caller's VectorXd& eigenvalues
    eigenvectors,    \* the caller's MatrixXd& eigenvectors
    solver,          \* the Eigen iterative solver object of the call
    out,             \* what the program has written to std::cout
    prev,            \* the caller's record of its previous solveGMRES call
    Ex,              \* the caller's MatrixXd& Ex
    Ey,              \* the caller's MatrixXd& Ey
    E_mag,           \* the field magnitude the caller keeps
    done,            \* the grid points whose loop body has run
    taken            \* the grid points workers hold, their loop body not yet run

sysVars == <<A, b>>
fieldVars == <<phi, phi_field>>
eigVars == <<eigenvalues, eigenvectors>>
iterVars == <<solver, out, prev>>
gradVars == <<Ex, Ey, E_mag>>
parVars == <<done, taken>>

vars == <<pc, args, err, ret, sysVars, fieldVars, eigVars, iterVars, gradVars, parVars>>

NoValue == [none |-> TRUE]

---------------------------------------------------------------------------
(* Bounds of the model *)

\* number of workers that assemble rows concurrently
MaxWorkers == 2
\* largest number of grid points of a grid assembled by concurrent workers
MaxPoints == 9

\* largest number of grid points along x
MaxNx == 4
\* largest number of grid points along y
MaxNy == 4
\* largest nx + ny of a grid whose system is solved: it keeps the exact
\* rational arithmetic of the elimination within TLC's 32-bit integers
MaxGridSum == 8

---------------------------------------------------------------------------
(* double arithmetic, as exact rationals *)

RECURSIVE Gcd(_, _)
Gcd(m, n) == IF n = 0 THEN m ELSE Gcd(n, m % n)

Abs(n) == IF n < 0 THEN -n ELSE n

\* the rational n/d in lowest terms with a positive denominator (d # 0)
Rat(n, d) ==
    LET g == Gcd(Abs(n), Abs(d))
        s == IF d < 0 THEN -1 ELSE 1
    IN  <<s * (n \div g), s * (d \div g)>>

R(n) == <<n, 1>>
RZero == <<0, 1>>
ROne == <<1, 1>>

\* sums and products cancel common factors before they multiply, so that the
\* intermediate integers stay as small as the result allows
RAdd(x, y) ==
    IF x[1] = 0 THEN y
    ELSE IF y[1] = 0 THEN x
    ELSE LET g == Gcd(x[2], y[2])
         IN  Rat(x[1] * (y[2] \div g) + y[1] * (x[2] \div g), (x[2] \div g) * y[2])
RNeg(x) == <<-x[1], x[2]>>
RSub(x, y) == RAdd(x, RNeg(y))
RMul(x, y) ==
    IF x[1] = 0 \/ y[1] = 0 THEN RZero
    ELSE LET g1 == Gcd(Abs(x[1]), y[2])
             g2 == Gcd(Abs(y[1]), x[2])
         IN  <<(x[1] \div g1) * (y[1] \div g2), (x[2] \div g2) * (y[2] \div g1)>>
\* y # 0
RDiv(x, y) == RMul(x, IF y[1] < 0 THEN <<-y[2], -y[1]>> ELSE <<y[2], y[1]>>)
\* x < y, for x, y >= 0, cancelling common factors before multiplying
RLess(x, y) ==
    IF y[1] = 0 THEN FALSE
    ELSE IF x[1] = 0 THEN TRUE
    ELSE LET g == Gcd(x[2], y[2])
             h == Gcd(x[1], y[1])
         IN  (x[1] \div h) * (y[2] \div g) < (y[1] \div h) * (x[2] \div g)

---------------------------------------------------------------------------
(* Eigen containers *)

\* MatrixXd::Zero(r, c)
MatrixZero(r, c) ==
    [rows |-> r, cols |-> c,
     coeff |-> [i \in 0..(r - 1) |-> [j \in 0..(c - 1) |-> RZero]]]

\* VectorXd::Zero(n)
VectorZero(n) == [i \in 0..(n - 1) |-> RZero]

\* A(r, c) = v
MatSet(M, r, c, v) == [M EXCEPT !.coeff[r][c] = v]

\* b(i) = v
VecSet(v, i, x) == [v EXCEPT ![i] = x]

\* a default-constructed Eigen::MatrixXd / Eigen::VectorXd
EmptyMatrix == MatrixZero(0, 0)
EmptyVector == VectorZero(0)

\* v.size()
VecLen(v) == Cardinality(DOMAIN v)

\* the variables a program that does not use them leaves as constructed
EigIdle == eigenvalues = EmptyVector /\ eigenvectors = EmptyMatrix
\* no iterative solver has been constructed
NoSolver == [method |-> "none"]
\* the caller has completed no solveGMRES call before the one in progress
NoCall == [called |-> FALSE]
IterIdle == solver = NoSolver /\ out = << >> /\ prev = NoCall
\* Ex, Ey and E_mag are default-constructed
GradIdle == Ex = EmptyMatrix /\ Ey = EmptyMatrix /\ E_mag = EmptyMatrix
\* no loop body has run and no worker holds a grid point
ParIdle == done = {} /\ taken = {}

---------------------------------------------------------------------------
(* Index mapping *)

\* C++ integer division truncates toward zero; % takes the sign of the dividend
CDiv(x, y) ==
    IF (x >= 0) = (y > 0) THEN Abs(x) \div Abs(y) ELSE -(Abs(x) \div Abs(y))
CMod(x, y) == x - y * CDiv(x, y)

coordToIndex(i, j, nx) == j * nx + i

\* an inverse mapping that returns its pair in the order {j, i}
indexToCoord_Swapped(index, nx) == <<CDiv(index, nx), CMod(index, nx)>>

indexToCoord(index, nx) == <<CMod(index, nx), CDiv(index, nx)>>

---------------------------------------------------------------------------
(* ElectrostaticSolver::buildFDMSystem *)

\* a size check that only rejects a rho that is too short
SizeMismatch_TooShortOnly(len, nx, ny) == len < (nx - 2) * (ny - 2)

\* rho.size() != (nx - 2) * (ny - 2): the int product is converted to the
\* unsigned size type, so a negative product becomes a value above any
\* vector length and never equals rho.size()
SizeMismatch(len, nx, ny) ==
    LET p == (nx - 2) * (ny - 2)
    IN  IF p < 0 THEN TRUE ELSE len # p

\* i == 0 || i == nx - 1 || j == 0 || j == ny - 1
IsBoundary(i, j, nx, ny) == i = 0 \/ i = nx - 1 \/ j = 0 \/ j = ny - 1

\* double cx = 1.0 / (dx * dx)
Cx(a) == RDiv(ROne, RMul(a.dx, a.dx))
\* double cy = 1.0 / (dy * dy)
Cy(a) == RDiv(ROne, RMul(a.dy, a.dy))
\* a centre coefficient that lost its factor 2
Center_NotDoubled(a) == RNeg(RAdd(Cx(a), Cy(a)))

\* double center = -2.0 * (cx + cy)
Center(a) == RMul(R(-2), RAdd(Cx(a), Cy(a)))

\* int interior_idx = (i - 1) + (j - 1) * (nx - 2)
InteriorIdx(i, j, nx) == (i - 1) + (j - 1) * (nx - 2)

\* a Dirichlet branch whose bounds test on boundaryValues is off by one
BoundaryRow_OffByOne(sys, i, j, a) ==
    LET idx == j * a.nx + i
    IN  [A |-> [sys.A EXCEPT !.coeff[idx][idx] = <<1, 1>>],
         b |-> [sys.b EXCEPT ![idx] =
                      IF idx + 1 < Cardinality(DOMAIN a.boundaryValues)
                      THEN a.boundaryValues[idx]
                      ELSE <<0, 1>>]]

\* the Dirichlet branch of the loop body
BoundaryRow(sys, i, j, a) ==
    LET idx == coordToIndex(i, j, a.nx)
    IN  [A |-> MatSet(sys.A, idx, idx, ROne),
         b |-> VecSet(sys.b, idx,
                      IF idx < VecLen(a.boundaryValues)
                      THEN a.boundaryValues[idx]
                      ELSE RZero)]

\* a stencil branch that couples the point to its west neighbour twice and
\* never to its east neighbour
InteriorRow_NoEastNeighbour(sys, i, j, a) ==
    LET idx == coordToIndex(i, j, a.nx)
        A1 == MatSet(sys.A, idx, idx, Center(a))
        A2 == MatSet(A1, idx, coordToIndex(i - 1, j, a.nx), Cx(a))
        A3 == MatSet(A2, idx, coordToIndex(i - 1, j, a.nx), Cx(a))
        A4 == MatSet(A3, idx, coordToIndex(i, j - 1, a.nx), Cy(a))
        A5 == MatSet(A4, idx, coordToIndex(i, j + 1, a.nx), Cy(a))
    IN  [A |-> A5,
         b |-> VecSet(sys.b, idx,
                      RDiv(RNeg(a.rho[InteriorIdx(i, j, a.nx)]), a.epsilon))]

\* a stencil branch that moves the west neighbour's right-hand side, as
\* assembled so far, into its own right-hand side
InteriorRow_ReadsWestRhs(sys, i, j, a) ==
    LET idx == coordToIndex(i, j, a.nx)
        A1 == MatSet(sys.A, idx, idx, Center(a))
        A2 == MatSet(A1, idx, coordToIndex(i - 1, j, a.nx), Cx(a))
        A3 == MatSet(A2, idx, coordToIndex(i + 1, j, a.nx), Cx(a))
        A4 == MatSet(A3, idx, coordToIndex(i, j - 1, a.nx), Cy(a))
        A5 == MatSet(A4, idx, coordToIndex(i, j + 1, a.nx), Cy(a))
    IN  [A |-> A5,
         b |-> VecSet(sys.b, idx,
                      RSub(RDiv(RNeg(a.rho[InteriorIdx(i, j, a.nx)]), a.epsilon),
                           RMul(Cx(a), sys.b[coordToIndex(i - 1, j, a.nx)])))]

\* the five-point stencil branch of the loop body
InteriorRow(sys, i, j, a) ==
    LET idx == coordToIndex(i, j, a.nx)
        A1 == MatSet(sys.A, idx, idx, Center(a))
        A2 == MatSet(A1, idx, coordToIndex(i - 1, j, a.nx), Cx(a))
        A3 == MatSet(A2, idx, coordToIndex(i + 1, j, a.nx), Cx(a))
        A4 == MatSet(A3, idx, coordToIndex(i, j - 1, a.nx), Cy(a))
        A5 == MatSet(A4, idx, coordToIndex(i, j + 1, a.nx), Cy(a))
    IN  [A |-> A5,
         b |-> VecSet(sys.b, idx,
                      RDiv(RNeg(a.rho[InteriorIdx(i, j, a.nx)]), a.epsilon))]

\* the body of the loops, for the grid point (i, j)
PointStep(sys, i, j, a) ==
    IF IsBoundary(i, j, a.nx, a.ny)
    THEN BoundaryRow(sys, i, j, a)
    ELSE InteriorRow(sys, i, j, a)

\* for (int i = from; i < nx; ++i) { ... }
RECURSIVE LoopI(_, _, _, _)
LoopI(sys, i, j, a) ==
    IF i < a.nx THEN LoopI(PointStep(sys, i, j, a), i + 1, j, a) ELSE sys

\* for (int j = from; j < ny; ++j) for (int i = 0; i < nx; ++i) { ... }
RECURSIVE LoopJ(_, _, _)
LoopJ(sys, j, a) ==
    IF j < a.ny THEN LoopJ(LoopI(sys, 0, j, a), j + 1, a) ELSE sys

\* the whole call: its exception, and the caller's A and b after it
buildFDMSystem(a, A0, b0) ==
    LET n == a.nx * a.ny
    IN  IF SizeMismatch(VecLen(a.rho), a.nx, a.ny)
        THEN [err |-> "invalid_argument", A |-> A0, b |-> b0]
        ELSE LET sys == LoopJ([A |-> MatrixZero(n, n), b |-> VectorZero(n)], 0, a)
             IN  [err |-> "none", A |-> sys.A, b |-> sys.b]

---------------------------------------------------------------------------
(* Inputs of the assembler *)

\* grid spacings dx, dy (> 0)
Spacings == {ROne, <<1, 2>>}

\* std::vector<double> of length len whose element k is v0 + k * step
Ramp(len, v0, step) == [k \in 0..(len - 1) |-> RAdd(v0, RMul(R(k), step))]

\* charge densities: all zero, or pairwise distinct entries
RhoLens == 0..((MaxNx - 2) * (MaxNy - 2) + 1)
RhoInputs == {Ramp(len, RZero, RZero) : len \in RhoLens}
             \cup {Ramp(len, R(3), R(2)) : len \in RhoLens}

Permittivities == {ROne, <<1, 2>>}

\* boundary values: absent, covering part of the grid, all of it, or more
BvLens(nx, ny) == {0, nx + 1, nx * ny - 1, nx * ny, nx * ny + 1}
BvInputs(nx, ny) ==
    {Ramp(len, R(5), RZero) : len \in BvLens(nx, ny)}
    \cup {Ramp(len, R(-1), <<1, 2>>) : len \in BvLens(nx, ny)}

AsmInputs ==
    UNION {
        [nx : {nx}, ny : {ny}, dx : Spacings, dy : Spacings, rho : RhoInputs,
         epsilon : Permittivities, boundaryValues : BvInputs(nx, ny)]
        : <<nx, ny>> \in (1..MaxNx) \X (1..MaxNy) }

\* what the caller's A and b hold before the call: default-constructed, or
\* the system of an earlier successful call on the minimal grid
MinimalArgs ==
    [nx |-> 3, ny |-> 3, dx |-> ROne, dy |-> ROne, rho |-> Ramp(1, R(3), RZero),
     epsilon |-> ROne, boundaryValues |-> Ramp(9, R(5), RZero)]
PriorSystems ==
    {[A |-> EmptyMatrix, b |-> EmptyVector],
     LET r == buildFDMSystem(MinimalArgs, EmptyMatrix, EmptyVector)
     IN  [A |-> r.A, b |-> r.b]}

NoArgs == [nx |-> 0, ny |-> 0, dx |-> ROne, dy |-> ROne, rho |-> EmptyVector,
           epsilon |-> ROne, boundaryValues |-> EmptyVector]

---------------------------------------------------------------------------
(* The assembler called once on a caller's A and b *)

InitAsm ==
    /\ pc = "idle"
    /\ args = NoArgs
    /\ \E p \in PriorSystems : A = p.A /\ b = p.b
    /\ err = "none"
    /\ phi = EmptyVector
    /\ phi_field = EmptyMatrix
    /\ ret = NoValue
    /\ EigIdle
    /\ IterIdle
    /\ ParIdle
    /\ GradIdle

\* solver.buildFDMSystem(nx, ny, dx, dy, rho, epsilon, A, b, boundaryValues)
Build(inputs) ==
    /\ pc = "idle"
    /\ \E a \in inputs :
          LET r == buildFDMSystem(a, A, b)
          IN  /\ args' = a
              /\ A' = r.A
              /\ b' = r.b
              /\ err' = r.err
              /\ pc' = IF r.err = "none" THEN "built" ELSE "thrown"
    /\ UNCHANGED <<fieldVars, ret, eigVars, iterVars, gradVars, parVars>>

BuildFDMSystem == Build(AsmInputs)

NextAsm == BuildFDMSystem

SpecAsm == InitAsm /\ [][NextAsm]_vars

---------------------------------------------------------------------------
(* Claims about the assembler *)

\* the grid points of the call, as (i, j) pairs
GridPoints(a) == (0..(a.nx - 1)) \X (0..(a.ny - 1))
BoundaryPoints(a) ==
    {p \in GridPoints(a) :
        p[1] = 0 \/ p[1] = a.nx - 1 \/ p[2] = 0 \/ p[2] = a.ny - 1}
InteriorPoints(a) == GridPoints(a) \ BoundaryPoints(a)

\* row r of M is zero outside the columns of want, and M[r][c] = want[c] on them
RowIs(M, r, want) ==
    \A c \in 0..(M.cols - 1) :
        M.coeff[r][c] = IF c \in DOMAIN want THEN want[c] ELSE RZero

\* C1: a call whose rho has a length other than (nx-2)*(ny-2) throws
\* invalid_argument and leaves the caller's A and b exactly as they were,
\* for every grid size, the minimal grid nx = ny = 3 included.
C1_WrongRhoLengthFails ==
    [][(pc = "idle" /\ pc' # "idle"
        /\ VecLen(args'.rho) # (args'.nx - 2) * (args'.ny - 2))
       => (err' = "invalid_argument" /\ pc' = "thrown" /\ A' = A /\ b' = b)]_vars

\* a failed call on the minimal grid, made on a caller's A and b that
\* already held a system
C1_Witness ==
    /\ pc = "thrown"
    /\ args.nx = 3 /\ args.ny = 3
    /\ VecLen(args.rho) = 2
    /\ A.rows = 9 /\ VecLen(b) = 9

\* C2: after a successful call every boundary point's row is the identity
\* row (1 on the diagonal, 0 elsewhere) and its right-hand side is the
\* boundary value supplied for its index, or 0 when the index is not
\* covered by boundaryValues.
C2_BoundaryRows ==
    pc = "built" =>
        \A p \in BoundaryPoints(args) :
            LET idx == p[2] * args.nx + p[1]
            IN  /\ RowIs(A, idx, (idx :> ROne))
                /\ b[idx] = IF idx < VecLen(args.boundaryValues)
                            THEN args.boundaryValues[idx]
                            ELSE RZero

\* a built system with boundary points on both sides of the end of
\* boundaryValues, the last covered one holding a non-zero value
C2_Witness ==
    /\ pc = "built"
    /\ args.nx = 4 /\ args.ny = 3
    /\ VecLen(args.boundaryValues) = 5
    /\ b[4] = args.boundaryValues[4] /\ b[4] # RZero
    /\ b[7] = RZero

\* C3: after a successful call every interior point's row holds the
\* five-point stencil (-2(cx+cy) on the diagonal, cx west and east, cy south
\* and north, 0 elsewhere) with cx = 1/dx^2, cy = 1/dy^2, its right-hand
\* side is -rho[(i-1)+(j-1)(nx-2)]/epsilon, and that index is a one-to-one
\* correspondence between the interior points and the entries of rho.
C3_InteriorRows ==
    pc = "built" =>
        LET cx == RDiv(ROne, RMul(args.dx, args.dx))
            cy == RDiv(ROne, RMul(args.dy, args.dy))
            k(p) == (p[1] - 1) + (p[2] - 1) * (args.nx - 2)
        IN  /\ \A p \in InteriorPoints(args) :
                  LET idx == p[2] * args.nx + p[1]
                  IN  /\ RowIs(A, idx,
                               (idx :> RMul(R(-2), RAdd(cx, cy)))
                               @@ (idx - 1 :> cx) @@ (idx + 1 :> cx)
                               @@ (idx - args.nx :> cy) @@ (idx + args.nx :> cy))
                      /\ b[idx] = RDiv(RNeg(args.rho[k(p)]), args.epsilon)
            /\ \A q \in DOMAIN args.rho :
                  Cardinality({p \in InteriorPoints(args) : k(p) = q}) = 1

\* a built system with four interior points, unequal spacings and pairwise
\* distinct non-zero charge densities
C3_Witness ==
    /\ pc = "built"
    /\ args.nx = 4 /\ args.ny = 4
    /\ args.dx # args.dy
    /\ VecLen(args.rho) = 4 /\ args.rho[0] # args.rho[3]
    /\ b[10] = RDiv(RNeg(args.rho[3]), args.epsilon)
    /\ A.coeff[10][9] # A.coeff[10][6]

\* the part of C3 that the code meets: the same statement on the grids with
\* at least two points along each axis (every valid grid nx, ny >= 3)
C3_InteriorRowsOnGrids ==
    (args.nx >= 2 /\ args.ny >= 2) => C3_InteriorRows

---------------------------------------------------------------------------
(* MatrixSolver::solveLU: A.lu().solve(b), partial-pivoting LU *)

RAbs(x) == <<Abs(x[1]), x[2]>>

\* what a division by a zero pivot leaves in the result
NaN == <<0, 0>>

\* the augmented matrix [A | b], row r a function on 0..n (column n is b)
Augment(M, v) ==
    [r \in 0..(M.rows - 1) |->
        [c \in 0..M.cols |-> IF c < M.cols THEN M.coeff[r][c] ELSE v[r]]]

\* the row of the largest |M[r][k]| among rows k..n-1, the first on a tie
PivotRow(M, k, n) ==
    CHOOSE p \in k..(n - 1) :
        \A r \in k..(n - 1) :
            \/ RLess(RAbs(M[r][k]), RAbs(M[p][k]))
            \/ (RAbs(M[r][k]) = RAbs(M[p][k]) /\ p <= r)

\* row r minus factor f times the pivot row, from column k on
Eliminate(row, piv, f, k, n) ==
    [c \in 0..n |->
        IF c < k THEN row[c]
        ELSE IF piv[c][1] = 0 THEN row[c]
        ELSE RSub(row[c], RMul(f, piv[c]))]

\* forward elimination from column k on; singular when a pivot is zero
RECURSIVE Factor(_, _, _)
Factor(M, k, n) ==
    IF k >= n THEN [M |-> M, singular |-> FALSE]
    ELSE LET p == PivotRow(M, k, n)
         IN  IF M[p][k][1] = 0 THEN [M |-> M, singular |-> TRUE]
             ELSE LET piv == M[p]
                      N == [r \in 0..(n - 1) |->
                              IF r < k THEN M[r]
                              ELSE IF r = k THEN piv
                              ELSE LET row == IF r = p THEN M[k] ELSE M[r]
                                   IN  IF row[k][1] = 0 THEN row
                                       ELSE Eliminate(row, piv,
                                                RDiv(row[k], piv[k]), k, n)]
                  IN  Factor(N, k + 1, n)

\* sum over c in from..n-1 of row[c] * x[c]
RECURSIVE Dot(_, _, _, _)
Dot(row, x, from, n) ==
    IF from >= n THEN RZero
    ELSE IF row[from][1] = 0 THEN Dot(row, x, from + 1, n)
    ELSE RAdd(RMul(row[from], x[from]), Dot(row, x, from + 1, n))

\* back substitution of the upper-triangular system, rows k down to 0
RECURSIVE BackSubstitute(_, _, _, _)
BackSubstitute(U, k, n, x) ==
    IF k < 0 THEN x
    ELSE BackSubstitute(U, k - 1, n,
            (k :> RDiv(RSub(U[k][n], Dot(U[k], x, k + 1, n)), U[k][k])) @@ x)

\* whether the factorisation of the square matrix M meets a zero pivot
Singular(M) == Factor(Augment(M, VectorZero(M.rows)), 0, M.rows).singular

solveLU(M, v) ==
    LET n == M.rows
        f == Factor(Augment(M, v), 0, n)
    IN  IF f.singular THEN [i \in 0..(n - 1) |-> NaN]
        ELSE BackSubstitute(f.M, n - 1, n, <<>>)

---------------------------------------------------------------------------
(* ElectrostaticSolver::solvePotential *)

\* a reshape that lays the field out with x along the rows
solvePotential_Transposed(nx, ny, v) ==
    [rows |-> nx, cols |-> ny,
     coeff |-> [i \in 0..(nx - 1) |->
                  [j \in 0..(ny - 1) |-> v[coordToIndex(i, j, nx)]]]]

\* phi_field(j, i) = phi(coordToIndex(i, j, nx)) for every j < ny, i < nx
solvePotential(nx, ny, v) ==
    [rows |-> ny, cols |-> nx,
     coeff |-> [j \in 0..(ny - 1) |->
                  [i \in 0..(nx - 1) |-> v[coordToIndex(i, j, nx)]]]]

---------------------------------------------------------------------------
(* The driver: assemble, solve with LU, reshape *)

\* boundaryValues of length nx*ny: f[<<i, j>>] on the boundary, fill inside
BvOnBoundary(nx, ny, f, fill) ==
    [idx \in 0..(nx * ny - 1) |->
        LET i == idx % nx
            j == idx \div nx
        IN  IF IsBoundary(i, j, nx, ny) THEN f[<<i, j>>] ELSE fill]

\* one potential on the whole boundary
BvConstant(nx, ny, V) ==
    LET f == [p \in (0..(nx - 1)) \X (0..(ny - 1)) |-> V]
    IN  BvOnBoundary(nx, ny, f, R(99))

\* VL on the column i = 0, VR on the column i = nx - 1, the linear
\* interpolation between them on the top and bottom rows
BvInterpolated(nx, ny, VL, VR) ==
    LET f == [p \in (0..(nx - 1)) \X (0..(ny - 1)) |->
                 RAdd(VL, RDiv(RMul(RSub(VR, VL), R(p[1])), R(nx - 1)))]
    IN  BvOnBoundary(nx, ny, f, RZero)

\* the parallel-plate driver: 100 on the column i = 0, 0 everywhere else
BvPlate(nx, ny) ==
    [idx \in 0..(nx * ny - 1) |-> IF idx % nx = 0 THEN R(100) ELSE RZero]

Potentials == {RZero, R(5), <<-3, 2>>}
PlatePairs == {<<R(100), RZero>>, <<RZero, R(6)>>, <<R(-3), R(3)>>}

\* the source-free problems: rho all zero, the boundary held at one
\* potential, interpolated between two plates, or as the driver sets it
LaplaceCases(nx, ny) ==
    {Ramp((nx - 2) * (ny - 2), RZero, RZero)}
    \X ({BvConstant(nx, ny, V) : V \in Potentials}
        \cup {BvInterpolated(nx, ny, pr[1], pr[2]) : pr \in PlatePairs}
        \cup {BvPlate(nx, ny), Ramp(nx * ny, R(1), R(1)), Ramp(nx, R(5), RZero)})

\* problems with charge: rho a ramp, the boundary at one potential or absent
PoissonCases(nx, ny) ==
    {Ramp((nx - 2) * (ny - 2), R(1), R(1))}
    \X {BvConstant(nx, ny, R(5)), EmptyVector}

DriverInputs ==
    UNION {
        {[nx |-> nx, ny |-> ny, dx |-> dx, dy |-> dy, rho |-> c[1],
          epsilon |-> ROne, boundaryValues |-> c[2]]
         : c \in LaplaceCases(nx, ny) \cup PoissonCases(nx, ny)}
        : <<nx, ny, dx, dy>> \in
              {g \in (2..MaxNx) \X (2..MaxNy) \X Spacings \X Spacings :
                  g[1] + g[2] <= MaxGridSum} }

InitDriver ==
    /\ pc = "idle"
    /\ args = NoArgs
    /\ A = EmptyMatrix
    /\ b = EmptyVector
    /\ err = "none"
    /\ phi = EmptyVector
    /\ phi_field = EmptyMatrix
    /\ ret = NoValue
    /\ EigIdle
    /\ IterIdle
    /\ ParIdle
    /\ GradIdle

BuildDriverSystem == Build(DriverInputs)

\* Eigen::VectorXd phi = solver.solveLU(A, b)
SolveLU ==
    /\ pc = "built"
    /\ phi' = solveLU(A, b)
    /\ pc' = "solved"
    /\ UNCHANGED <<args, sysVars, err, phi_field, ret, eigVars, iterVars, gradVars, parVars>>

\* Eigen::MatrixXd phi_field = solver.solvePotential(nx, ny, phi)
SolvePotential ==
    /\ pc = "solved"
    /\ phi_field' = solvePotential(args.nx, args.ny, phi)
    /\ pc' = "reshaped"
    /\ UNCHANGED <<args, sysVars, err, phi, ret, eigVars, iterVars, gradVars, parVars>>

NextDriver == BuildDriverSystem \/ SolveLU \/ SolvePotential

SpecDriver == InitDriver /\ [][NextDriver]_vars

---------------------------------------------------------------------------
(* Claims about the solved system *)

ValidGrid(a) == a.nx >= 3 /\ a.ny >= 3 /\ RLess(RZero, a.dx) /\ RLess(RZero, a.dy)

ZeroRho(a) == \A k \in DOMAIN a.rho : a.rho[k] = RZero

\* boundaryValues prescribes f(p) at every boundary point p
BoundaryIs(a, f(_)) ==
    \A p \in BoundaryPoints(a) :
        LET idx == p[2] * a.nx + p[1]
        IN  idx \in DOMAIN a.boundaryValues /\ a.boundaryValues[idx] = f(p)

\* row r of M*x = v holds for the vector x
RowHolds(M, v, r, x) == Dot(M.coeff[r], x, 0, M.cols) = v[r]

\* C9: on a valid grid with zero rho and one potential V on the whole
\* boundary, the constant vector V satisfies every row of A*x = b, the
\* system has no other solution, and the LU solve returns it.
C9_ConstantBoundaryConstantSolution ==
    (pc \in {"solved", "reshaped"} /\ ValidGrid(args) /\ ZeroRho(args)
     /\ LET f(p) == args.boundaryValues[0] IN BoundaryIs(args, f))
    => LET V == args.boundaryValues[0]
           x == [idx \in 0..(args.nx * args.ny - 1) |-> V]
       IN  /\ \A r \in 0..(A.rows - 1) : RowHolds(A, b, r, x)
           /\ ~Singular(A)
           /\ phi = x

\* a solved 4-by-4 problem with a non-zero potential on the boundary, other
\* values of boundaryValues at the interior indices, and unequal spacings
C9_Witness ==
    /\ pc = "solved"
    /\ args.nx = 4 /\ args.ny = 4 /\ args.dx # args.dy
    /\ ZeroRho(args)
    /\ LET f(p) == <<-3, 2>> IN BoundaryIs(args, f)
    /\ args.boundaryValues[5] # <<-3, 2>>
    /\ phi[5] = <<-3, 2>>

\* the potential the claim gives for column i between plates at VL and VR
Interpolation(a, i) ==
    LET VL == a.boundaryValues[0]
        VR == a.boundaryValues[a.nx - 1]
    IN  RAdd(VL, RDiv(RMul(RSub(VR, VL), R(i)), R(a.nx - 1)))

\* C10: on a valid grid with zero rho, VL on the column i = 0, VR on the
\* column i = nx-1 and the linear interpolation on the top and bottom rows,
\* the solution at every interior point (i, j) is VL + (VR-VL)*i/(nx-1),
\* whatever j is.
C10_LinearInterpolation ==
    (pc \in {"solved", "reshaped"} /\ ValidGrid(args) /\ ZeroRho(args)
     /\ LET f(p) == Interpolation(args, p[1]) IN BoundaryIs(args, f))
    => \A p \in InteriorPoints(args) :
           phi[p[2] * args.nx + p[1]] = Interpolation(args, p[1])

\* a solved 4-by-4 problem between plates at 100 and 0 with unequal
\* spacings: the two interior columns hold 200/3 and 100/3
C10_Witness ==
    /\ pc = "solved"
    /\ args.nx = 4 /\ args.ny = 4 /\ args.dx # args.dy
    /\ ZeroRho(args)
    /\ args.boundaryValues[0] = R(100) /\ args.boundaryValues[3] = RZero
    /\ LET f(p) == Interpolation(args, p[1]) IN BoundaryIs(args, f)
    /\ phi[5] = <<200, 3>> /\ phi[6] = <<100, 3>>
    /\ phi[9] = <<200, 3>> /\ phi[10] = <<100, 3>>

\* the top and bottom edges without their corners
PlateEdgePoints(a) ==
    {p \in BoundaryPoints(a) : 0 < p[1] /\ p[1] < a.nx - 1}

\* the driver's parallel-plate problem on a valid grid, solved
PlateProblemSolved ==
    /\ pc \in {"solved", "reshaped"}
    /\ ValidGrid(args) /\ ZeroRho(args)
    /\ args.boundaryValues = BvPlate(args.nx, args.ny)

\* C11: in the parallel-plate setup (boundaryValues of length nx*ny, 100 on
\* the column i = 0, 0 elsewhere, zero rho) the rows of the top and bottom
\* edge points (j = 0 and j = ny-1, 0 < i < nx-1) do not prescribe the
\* potential there, and the solution varies linearly across the gap.
C11_PlateEdgesFree ==
    PlateProblemSolved
    => /\ \A p \in PlateEdgePoints(args) :
              LET idx == p[2] * args.nx + p[1]
              IN  ~RowIs(A, idx, (idx :> ROne))
       /\ \A p \in GridPoints(args) :
              phi[p[2] * args.nx + p[1]] = Interpolation(args, p[1])

\* what the assembled system does with these edges: each of their rows is
\* the identity row with right-hand side 0, and the solution is 0 on them
C11_PlateEdgesPinned ==
    PlateProblemSolved
    => \A p \in PlateEdgePoints(args) :
           LET idx == p[2] * args.nx + p[1]
           IN  /\ RowIs(A, idx, (idx :> ROne))
               /\ b[idx] = RZero
               /\ phi[idx] = RZero

\* the solved 4-by-4 plate problem: 0 on the top edge next to the plate at
\* 100, and an interior potential below the 200/3 of the linear profile
C11_Witness ==
    /\ PlateProblemSolved
    /\ args.nx = 4 /\ args.ny = 4 /\ args.dx = args.dy
    /\ phi[0] = R(100) /\ phi[1] = RZero
    /\ RLess(RZero, phi[5]) /\ RLess(phi[5], <<200, 3>>)

\* the linear indices of a set of grid points
IndicesOf(a, points) == {p[2] * a.nx + p[1] : p \in points}

\* C12: for every valid grid the assembled A is symmetric, A[r][c] = A[c][r]
\* for every pair of grid indices r, c, as solveConjugateGradient requires
\* of its argument.
C12_AssembledSymmetric ==
    (pc = "built" /\ ValidGrid(args))
    => \A r, c \in 0..(A.rows - 1) : A.coeff[r][c] = A.coeff[c][r]

\* what the assembled A is like: symmetric among the interior points and
\* among the boundary points, but the row of an interior point next to the
\* boundary holds cx or cy in the column of its boundary neighbour while
\* the identity row of that neighbour holds 0 in the interior's column
C12_SymmetricOffBoundaryOnly ==
    (pc = "built" /\ ValidGrid(args))
    => LET I == IndicesOf(args, InteriorPoints(args))
           B == IndicesOf(args, BoundaryPoints(args))
       IN  /\ \A r, c \in I : A.coeff[r][c] = A.coeff[c][r]
           /\ \A r, c \in B : A.coeff[r][c] = A.coeff[c][r]
           /\ \A c \in B : \A r \in I : A.coeff[c][r] = RZero
           /\ \E r \in I : \E c \in B : A.coeff[r][c] # RZero

\* the system of the minimal grid: the centre row couples to the boundary
\* point above it, whose identity row does not couple back
C12_Witness ==
    /\ pc = "built"
    /\ args.nx = 3 /\ args.ny = 3 /\ ValidGrid(args)
    /\ A.coeff[4][1] = Cy(args)
    /\ A.coeff[1][4] = RZero

---------------------------------------------------------------------------
(* The index mapping called on its own *)

\* largest row index j, and largest linear index, handed to the mapping
MaxJ == 4
MaxIndex == 12

InitIndex ==
    /\ pc = "idle"
    /\ args = NoArgs
    /\ A = EmptyMatrix
    /\ b = EmptyVector
    /\ err = "none"
    /\ phi = EmptyVector
    /\ phi_field = EmptyMatrix
    /\ ret = NoValue
    /\ EigIdle
    /\ IterIdle
    /\ ParIdle
    /\ GradIdle

\* idx = coordToIndex(i, j, nx), for any ints i, j and nx >= 1
CoordToIndex ==
    /\ pc = "idle"
    /\ \E nx \in 1..MaxNx, j \in (-1)..MaxJ :
          \E i \in (-1)..nx :
              /\ args' = [nx |-> nx, i |-> i, j |-> j]
              /\ ret' = coordToIndex(i, j, nx)
    /\ pc' = "index"
    /\ UNCHANGED <<sysVars, err, fieldVars, eigVars, iterVars, gradVars, parVars>>

\* indexToCoord(idx, nx) on the index just computed
IndexToCoordOfIndex ==
    /\ pc = "index"
    /\ ret' = indexToCoord(ret, args.nx)
    /\ pc' = "coord_of_index"
    /\ UNCHANGED <<args, sysVars, err, fieldVars, eigVars, iterVars, gradVars, parVars>>

\* {i, j} = indexToCoord(index, nx), for any int index and nx >= 1
IndexToCoord ==
    /\ pc = "idle"
    /\ \E nx \in 1..MaxNx, index \in (-2)..MaxIndex :
          /\ args' = [nx |-> nx, index |-> index]
          /\ ret' = indexToCoord(index, nx)
    /\ pc' = "coord"
    /\ UNCHANGED <<sysVars, err, fieldVars, eigVars, iterVars, gradVars, parVars>>

\* coordToIndex(i, j, nx) on the pair just computed
CoordToIndexOfCoord ==
    /\ pc = "coord"
    /\ ret' = coordToIndex(ret[1], ret[2], args.nx)
    /\ pc' = "index_of_coord"
    /\ UNCHANGED <<args, sysVars, err, fieldVars, eigVars, iterVars, gradVars, parVars>>

NextIndex ==
    CoordToIndex \/ IndexToCoordOfIndex \/ IndexToCoord \/ CoordToIndexOfCoord

SpecIndex == InitIndex /\ [][NextIndex]_vars

\* C4: for nx >= 1, 0 <= i < nx and j >= 0, indexToCoord gives (i, j) back
\* from coordToIndex(i, j, nx); for index >= 0, coordToIndex gives index
\* back from indexToCoord(index, nx), whose pair is (index % nx, index / nx).
C4_IndexMappingInverse ==
    /\ (pc = "coord_of_index" /\ 0 <= args.i /\ args.i < args.nx /\ args.j >= 0)
       => ret = <<args.i, args.j>>
    /\ (pc = "coord" /\ args.index >= 0)
       => ret = <<args.index % args.nx, args.index \div args.nx>>
    /\ (pc = "index_of_coord" /\ args.index >= 0)
       => ret = args.index

\* the last point of the third row of a grid 4 wide, mapped there and back
C4_Witness ==
    /\ pc = "coord_of_index"
    /\ args = [nx |-> 4, i |-> 3, j |-> 2]
    /\ ret = <<3, 2>>

---------------------------------------------------------------------------
(* solvePotential called on any vector of nx*ny values *)

\* solution vectors: element k is v0 + k * step
PhiInputs(n) ==
    {Ramp(n, c[1], c[2]) :
        c \in {<<RZero, ROne>>, <<ROne, R(2)>>, <<R(5), RZero>>, <<R(-1), <<1, 2>>>>}}

InitReshape ==
    /\ pc = "solved"
    /\ \E nx \in 1..MaxNx, ny \in 1..MaxNy :
          /\ args = [NoArgs EXCEPT !.nx = nx, !.ny = ny]
          /\ phi \in PhiInputs(nx * ny)
    /\ A = EmptyMatrix
    /\ b = EmptyVector
    /\ err = "none"
    /\ phi_field = EmptyMatrix
    /\ ret = NoValue
    /\ EigIdle
    /\ IterIdle
    /\ ParIdle
    /\ GradIdle

NextReshape == SolvePotential

SpecReshape == InitReshape /\ [][NextReshape]_vars

\* C5: solvePotential returns a field of ny rows and nx columns with
\* field[j][i] = phi[j*nx+i]; every index of phi is the index of exactly
\* one cell; and phi is left as it was.
C5_ReshapeRowMajor ==
    [][(pc = "solved" /\ pc' = "reshaped") =>
        /\ phi' = phi
        /\ phi_field'.rows = args.ny /\ phi_field'.cols = args.nx
        /\ DOMAIN phi_field'.coeff = 0..(args.ny - 1)
        /\ \A j \in 0..(args.ny - 1) :
              /\ DOMAIN phi_field'.coeff[j] = 0..(args.nx - 1)
              /\ \A i \in 0..(args.nx - 1) :
                    phi_field'.coeff[j][i] = phi[j * args.nx + i]
        /\ \A k \in DOMAIN phi :
              Cardinality({c \in (0..(args.nx - 1)) \X (0..(args.ny - 1)) :
                              c[2] * args.nx + c[1] = k}) = 1]_vars

\* a 4-wide, 3-high field of pairwise distinct values: the cell in row 2,
\* column 1 holds element 9 of phi
C5_Witness ==
    /\ pc = "reshaped"
    /\ args.nx = 4 /\ args.ny = 3
    /\ phi[9] # phi[6]
    /\ phi_field.rows = 3 /\ phi_field.cols = 4
    /\ phi_field.coeff[2][1] = phi[9]

---------------------------------------------------------------------------
(* MatrixSolver::determinant, inverse, eigenDecomposition *)

\* M without its row r and column c
Minor(M, r, c) ==
    [rows |-> M.rows - 1, cols |-> M.cols - 1,
     coeff |-> [i \in 0..(M.rows - 2) |->
                  [j \in 0..(M.cols - 2) |->
                      M.coeff[IF i < r THEN i ELSE i + 1][IF j < c THEN j ELSE j + 1]]]]

\* A.determinant() of a square matrix: expansion along the first row
RECURSIVE Det(_)
RECURSIVE DetFrom(_, _)
DetFrom(M, c) ==
    IF c >= M.cols THEN RZero
    ELSE LET term == IF M.coeff[0][c][1] = 0 THEN RZero
                     ELSE RMul(M.coeff[0][c], Det(Minor(M, 0, c)))
         IN  RAdd(IF c % 2 = 0 THEN term ELSE RNeg(term), DetFrom(M, c + 1))
Det(M) == IF M.rows = 0 THEN ROne ELSE DetFrom(M, 0)

\* A.inverse() of a square matrix: column c solves A x = e_c
Inv(M) ==
    LET n == M.rows
        col == [c \in 0..(n - 1) |->
                  solveLU(M, [r \in 0..(n - 1) |-> IF r = c THEN ROne ELSE RZero])]
    IN  [rows |-> n, cols |-> n,
         coeff |-> [r \in 0..(n - 1) |-> [c \in 0..(n - 1) |-> col[c][r]]]]

\* solver.eigenvalues().real() and solver.eigenvectors().real() of
\* Eigen::EigenSolver<MatrixXd> solver(A): the values are the library's
EigenvaluesReal(M) == [size |-> M.rows, realPartOf |-> <<"eigenvalues", M>>]
EigenvectorsReal(M) ==
    [rows |-> M.rows, cols |-> M.cols, realPartOf |-> <<"eigenvectors", M>>]

determinant(M) ==
    IF M.rows # M.cols
    THEN [err |-> "invalid_argument", ret |-> NoValue]
    ELSE [err |-> "none", ret |-> Det(M)]

inverse(M) ==
    IF M.rows # M.cols
    THEN [err |-> "invalid_argument", ret |-> NoValue]
    ELSE [err |-> "none", ret |-> Inv(M)]

\* a decomposition that writes its outputs before it tests the shape
eigenDecomposition_ChecksLast(M, values0, vectors0) ==
    [err |-> IF M.rows # M.cols THEN "invalid_argument" ELSE "none",
     eigenvalues |-> EigenvaluesReal(M),
     eigenvectors |-> EigenvectorsReal(M)]

eigenDecomposition(M, values0, vectors0) ==
    IF M.rows # M.cols
    THEN [err |-> "invalid_argument",
          eigenvalues |-> values0, eigenvectors |-> vectors0]
    ELSE [err |-> "none",
          eigenvalues |-> EigenvaluesReal(M),
          eigenvectors |-> EigenvectorsReal(M)]

---------------------------------------------------------------------------
(* The three operations called on matrices of any shape *)

\* largest numbers of rows and columns of an input matrix
MaxRows == 5
MaxCols == 3

\* an r-by-c matrix with entry f[<<i, j>>]
MatrixOf(r, c, f) ==
    [rows |-> r, cols |-> c,
     coeff |-> [i \in 0..(r - 1) |-> [j \in 0..(c - 1) |-> f[<<i, j>>]]]]

\* the entry patterns of the inputs: consecutive integers, a multiple of
\* the identity, a lower-triangular pattern
Entries(c) ==
    LET I == (0..MaxRows) \X (0..MaxCols)
    IN  {[p \in I |-> R(p[1] * c + p[2] + 1)],
         [p \in I |-> IF p[1] = p[2] THEN R(2) ELSE RZero],
         [p \in I |-> IF p[2] <= p[1] THEN R(p[1] + 1) ELSE RZero]}

\* the matrices passed in: every shape up to MaxRows by MaxCols
MatrixInputs ==
    UNION {
        {MatrixOf(r, c, f) : f \in Entries(c)}
        : <<r, c>> \in (0..MaxRows) \X (0..MaxCols) }

\* what the caller's eigenvalues and eigenvectors hold before the call:
\* default-constructed, or the results of an earlier decomposition
PriorEigen ==
    LET M1 == MatrixOf(1, 1, [p \in {<<0, 0>>} |-> R(2)])
    IN  {[eigenvalues |-> EmptyVector, eigenvectors |-> EmptyMatrix],
         [eigenvalues |-> EigenvaluesReal(M1), eigenvectors |-> EigenvectorsReal(M1)]}

InitMatrix ==
    /\ pc = "idle"
    /\ args = NoArgs
    /\ A = EmptyMatrix
    /\ b = EmptyVector
    /\ err = "none"
    /\ phi = EmptyVector
    /\ phi_field = EmptyMatrix
    /\ ret = NoValue
    /\ \E p \in PriorEigen :
          eigenvalues = p.eigenvalues /\ eigenvectors = p.eigenvectors
    /\ IterIdle
    /\ ParIdle
    /\ GradIdle

\* double d = solver.determinant(A)
Determinant ==
    /\ pc = "idle"
    /\ \E M \in MatrixInputs :
          LET r == determinant(M)
          IN  /\ args' = [op |-> "determinant", A |-> M]
              /\ err' = r.err
              /\ ret' = r.ret
              /\ pc' = IF r.err = "none" THEN "returned" ELSE "thrown"
    /\ UNCHANGED <<sysVars, fieldVars, eigVars, iterVars, gradVars, parVars>>

\* MatrixXd Ainv = solver.inverse(A)
Inverse ==
    /\ pc = "idle"
    /\ \E M \in MatrixInputs :
          LET r == inverse(M)
          IN  /\ args' = [op |-> "inverse", A |-> M]
              /\ err' = r.err
              /\ ret' = r.ret
              /\ pc' = IF r.err = "none" THEN "returned" ELSE "thrown"
    /\ UNCHANGED <<sysVars, fieldVars, eigVars, iterVars, gradVars, parVars>>

\* solver.eigenDecomposition(A, eigenvalues, eigenvectors)
EigenDecomposition ==
    /\ pc = "idle"
    /\ \E M \in MatrixInputs :
          LET r == eigenDecomposition(M, eigenvalues, eigenvectors)
          IN  /\ args' = [op |-> "eigenDecomposition", A |-> M]
              /\ err' = r.err
              /\ eigenvalues' = r.eigenvalues
              /\ eigenvectors' = r.eigenvectors
              /\ pc' = IF r.err = "none" THEN "returned" ELSE "thrown"
    /\ UNCHANGED <<sysVars, fieldVars, ret, iterVars, gradVars, parVars>>

NextMatrix == Determinant \/ Inverse \/ EigenDecomposition

SpecMatrix == InitMatrix /\ [][NextMatrix]_vars

\* C6: determinant, inverse and eigenDecomposition of a matrix whose row
\* count differs from its column count throw invalid_argument and produce
\* nothing: no value is returned, and the caller's eigenvalues and
\* eigenvectors are left as they were.
C6_NonSquareFails ==
    [][(pc = "idle" /\ pc' # "idle" /\ args'.A.rows # args'.A.cols)
       => /\ err' = "invalid_argument" /\ pc' = "thrown"
          /\ ret' = NoValue
          /\ eigenvalues' = eigenvalues /\ eigenvectors' = eigenvectors]_vars

\* eigenDecomposition refused a 2-by-3 matrix and the caller still holds the
\* results of the earlier decomposition
C6_Witness ==
    /\ pc = "thrown"
    /\ args.op = "eigenDecomposition"
    /\ args.A.rows = 2 /\ args.A.cols = 3
    /\ eigenvalues # EmptyVector /\ eigenvectors # EmptyMatrix

---------------------------------------------------------------------------
(* MatrixSolver::solveConjugateGradient and MatrixSolver::solveGMRES *)

\* the defaults of the declarations
DefaultMaxIterations == -1
DefaultRestart == 30
DefaultTolerance == <<1, 1000000>>

\* a cap that takes maxIterations = 0 for a cap of no iterations
IterationCap_ZeroIsExplicit(maxIterations, cols) ==
    IF maxIterations >= 0 THEN maxIterations ELSE cols

\* if (maxIterations > 0) setMaxIterations(maxIterations);
\* else setMaxIterations(A.cols());
IterationCap(maxIterations, cols) ==
    IF maxIterations > 0 THEN maxIterations ELSE cols

\* The matrix A and the vector b enter the library's iteration only through
\* the iterates they produce.  A problem is its number of unknowns and the
\* relative residual estimates |b - A x_k| / |b| of its successive iterates
\* x_1, x_2, ... (the last one repeats); x_0 = 0 has the estimate 1.
ResidualAfter(a, k) ==
    IF k = 0 THEN ROne
    ELSE a.residuals[IF k < Len(a.residuals) THEN k ELSE Len(a.residuals)]

\* the iterate x_k of the problem
Iterate(a, k) == [size |-> a.A.cols, problem |-> a.residuals, updates |-> k]

\* the library's stopping test: ConjugateGradient stops when the estimate is
\* below the tolerance, BiCGSTAB iterates while it is above it
Converged(method, error, tolerance) ==
    IF method = "ConjugateGradient"
    THEN RLess(error, tolerance)
    ELSE ~RLess(tolerance, error)

\* a wrapper that hands restart to the solver as a further iteration cap
SolverAtEntry_RestartCaps(method, a) ==
    LET cap == IterationCap(a.maxIterations, a.A.cols)
    IN  [method |-> method,
         maxIterations |->
             IF method = "BiCGSTAB" /\ a.restart < cap THEN a.restart ELSE cap,
         tolerance |-> a.tolerance,
         iterations |-> 0,
         updates |-> 0,
         error |-> ResidualAfter(a, 0)]

\* cg.compute(A); setMaxIterations(...); setTolerance(tolerance); and the
\* entry of solve(b): the test of the first residual
SolverAtEntry(method, a) ==
    [method |-> method,
     maxIterations |-> IterationCap(a.maxIterations, a.A.cols),
     tolerance |-> a.tolerance,
     iterations |-> 0,
     updates |-> 0,
     error |-> ResidualAfter(a, 0)]

\* one pass of the library's loop: update x, re-estimate the residual, count
\* the pass (ConjugateGradient leaves the loop before counting the pass that
\* converged)
SolverAfterPass(s, a) ==
    LET e == ResidualAfter(a, s.updates + 1)
    IN  [s EXCEPT !.updates = s.updates + 1,
                  !.error = e,
                  !.iterations =
                      IF s.method = "ConjugateGradient"
                         /\ Converged(s.method, e, s.tolerance)
                      THEN s.iterations
                      ELSE s.iterations + 1]

\* whether the library's loop makes another pass
LoopContinues(s) ==
    s.iterations < s.maxIterations /\ ~Converged(s.method, s.error, s.tolerance)

\* a wrapper that throws when the solver did not converge
SolveStatus_ThrowsUnlessConverged(s) ==
    IF Converged(s.method, s.error, s.tolerance) THEN "none" ELSE "runtime_error"

\* the wrappers never look at the solver's info(): they return x
SolveStatus(s) == "none"

\* the lines the wrapper writes to std::cout
Diagnostics(s, a) ==
    IF s.method = "ConjugateGradient"
    THEN << <<"ConjugateGradient Info:">>,
            <<"  Iterations: ", s.iterations>>,
            <<"  Estimated error: ", s.error>> >>
    ELSE << <<"BiCGSTAB Solver Info (GMRES alternative):">>,
            <<"  Restart parameter (unused for BiCGSTAB): ", a.restart>>,
            <<"  Iterations: ", s.iterations>>,
            <<"  Estimated error: ", s.error>> >>

---------------------------------------------------------------------------
(* The iterative solvers called on any problem *)

\* largest explicit maxIterations, largest number of unknowns, and the
\* number of iterates whose residual estimates a problem lists
MaxIter == 3
MaxUnknowns == 3
MaxTrajectory == 3

\* residual estimates: exact, below both tolerances, between them, above
ResidualLevels == {RZero, <<1, 100>>, ROne}
Tolerances == {DefaultTolerance, <<1, 10>>}

Trajectories == [1..MaxTrajectory -> ResidualLevels]

IterativeInputs(restarts) ==
    [A : {[rows |-> n, cols |-> n] : n \in 1..MaxUnknowns},
     residuals : Trajectories,
     restart : restarts,
     maxIterations : {DefaultMaxIterations} \cup (0..MaxIter),
     tolerance : Tolerances]

InitIter ==
    /\ pc = "idle"
    /\ args = NoArgs
    /\ A = EmptyMatrix
    /\ b = EmptyVector
    /\ err = "none"
    /\ phi = EmptyVector
    /\ phi_field = EmptyMatrix
    /\ ret = NoValue
    /\ EigIdle
    /\ IterIdle
    /\ ParIdle
    /\ GradIdle

\* the call, up to the entry of the library's loop
Enter(method, inputs) ==
    /\ pc = "idle"
    /\ \E a \in inputs :
          LET s == SolverAtEntry(method, a)
          IN  /\ args' = a
              /\ solver' = s
              /\ pc' = IF LoopContinues(s) THEN "iterating" ELSE "finishing"
    /\ UNCHANGED <<err, ret, out, prev, sysVars, fieldVars, eigVars, gradVars, parVars>>

\* x = solver.solveConjugateGradient(A, b, maxIterations, tolerance)
SolveConjugateGradient == Enter("ConjugateGradient", IterativeInputs({DefaultRestart}))

\* x = solver.solveGMRES(A, b, restart, maxIterations, tolerance)
SolveGMRES == Enter("BiCGSTAB", IterativeInputs({DefaultRestart, 1}))

\* one pass of the loop inside cg.solve(b) / solver.solve(b)
Iteration ==
    /\ pc = "iterating"
    /\ LET s == SolverAfterPass(solver, args)
       IN  /\ solver' = s
           /\ pc' = IF LoopContinues(s) THEN "iterating" ELSE "finishing"
    /\ UNCHANGED <<args, err, ret, out, prev, sysVars, fieldVars, eigVars, gradVars, parVars>>

\* the end of the wrapper: print the diagnostics, return x
Report ==
    /\ pc = "finishing"
    /\ err' = SolveStatus(solver)
    /\ out' = out \o Diagnostics(solver, args)
    /\ ret' = IF err' = "none" THEN Iterate(args, solver.updates) ELSE NoValue
    /\ pc' = IF err' = "none" THEN "returned" ELSE "thrown"
    /\ UNCHANGED <<args, solver, prev, sysVars, fieldVars, eigVars, gradVars, parVars>>

NextIter == SolveConjugateGradient \/ SolveGMRES \/ Iteration \/ Report

SpecIter == InitIter /\ [][NextIter]_vars

\* the wrapper is sequential code: a pass or a return that can be made is made
FairSpecIter == SpecIter /\ WF_vars(Iteration) /\ WF_vars(Report)

---------------------------------------------------------------------------
(* Claims about the iterative solvers *)

\* the call has returned with the budget used up and the tolerance not met
Exhausted ==
    /\ pc \in {"returned", "thrown"}
    /\ solver.method # "none"
    /\ ~Converged(solver.method, solver.error, solver.tolerance)

C8_TerminatesWithinCap ==
    /\ [](solver.method # "none" =>
            /\ solver.maxIterations =
                  (IF args.maxIterations > 0 THEN args.maxIterations
                   ELSE args.A.cols)
            /\ solver.iterations <= solver.maxIterations
            /\ solver.updates <= solver.maxIterations
            /\ (pc = "iterating" =>
                  /\ solver.iterations < solver.maxIterations
                  /\ ~RLess(solver.error, solver.tolerance)))
    /\ (pc \in {"iterating", "finishing"}) ~> (pc = "returned")

\* solveConjugateGradient with maxIterations left at its default on three
\* unknowns, stopped by the cap of three passes
C8_Witness ==
    /\ pc = "returned"
    /\ args.maxIterations = DefaultMaxIterations
    /\ args.A.cols = 3
    /\ solver.method = "ConjugateGradient"
    /\ solver.iterations = 3 /\ solver.updates = 3
    /\ ~RLess(solver.error, solver.tolerance)

---------------------------------------------------------------------------
(* The electric field of a potential field *)

\* the non-negative square root of q >= 0, denoted by its radicand: the
\* root is one-to-one on the non-negative numbers, so two roots are equal
\* exactly when their radicands are
Sqrt(q) == [sqrtOf |-> q]

\* the loop body: the central differences at column i of row j
FieldStep(E, field, dx, dy, j, i) ==
    [Ex |-> MatSet(E.Ex, j, i,
                   RDiv(RNeg(RSub(field.coeff[j][i + 1], field.coeff[j][i - 1])),
                        RMul(R(2), dx))),
     Ey |-> MatSet(E.Ey, j, i,
                   RDiv(RNeg(RSub(field.coeff[j + 1][i], field.coeff[j - 1][i])),
                        RMul(R(2), dy)))]

\* for (int i = ...; i < nx - 1; ++i)
RECURSIVE FieldLoopI(_, _, _, _, _, _)
FieldLoopI(E, field, dx, dy, j, i) ==
    IF i < field.cols - 1
    THEN FieldLoopI(FieldStep(E, field, dx, dy, j, i), field, dx, dy, j, i + 1)
    ELSE E

\* for (int j = ...; j < ny - 1; ++j)
RECURSIVE FieldLoopJ(_, _, _, _, _)
FieldLoopJ(E, field, dx, dy, j) ==
    IF j < field.rows - 1
    THEN FieldLoopJ(FieldLoopI(E, field, dx, dy, j, 1), field, dx, dy, j + 1)
    ELSE E

\* a version that only resizes Ex and Ey: matrices that already have the
\* shape of the field keep what they held
computeElectricField_ResizesOnly(field, dx, dy, Ex0, Ey0) ==
    LET ny == field.rows
        nx == field.cols
        Keep(M) == IF M.rows = ny /\ M.cols = nx THEN M ELSE MatrixZero(ny, nx)
    IN  FieldLoopJ([Ex |-> Keep(Ex0), Ey |-> Keep(Ey0)], field, dx, dy, 1)

\* computeElectricField: Ex0 and Ey0 are what the caller's Ex and Ey hold
\* at the call; the result is what they hold after it
computeElectricField(field, dx, dy, Ex0, Ey0) ==
    LET ny == field.rows
        nx == field.cols
    IN  FieldLoopJ([Ex |-> MatrixZero(ny, nx), Ey |-> MatrixZero(ny, nx)],
                   field, dx, dy, 1)

\* computeFieldMagnitude: (Ex.array().square() + Ey.array().square()).sqrt()
computeFieldMagnitude(X, Y) ==
    [rows |-> X.rows, cols |-> X.cols,
     coeff |-> [j \in 0..(X.rows - 1) |-> [i \in 0..(X.cols - 1) |->
                  Sqrt(RAdd(RMul(X.coeff[j][i], X.coeff[j][i]),
                            RMul(Y.coeff[j][i], Y.coeff[j][i])))]]]

\* the potential fields passed in: a plane, a saddle, a field that is
\* neither, and a constant, of every shape up to MaxNy by MaxNx
FieldEntries ==
    LET I == (0..MaxNy) \X (0..MaxNx)
    IN  {[p \in I |-> R(p[2] + 3 * p[1])],
         [p \in I |-> R(p[2] * p[2] - p[1] * p[1])],
         [p \in I |-> Rat(p[2] * p[1] * p[1] - 5, 2)],
         [p \in I |-> R(7)]}

PhiFieldInputs ==
    UNION {
        {MatrixOf(ny, nx, f) : f \in FieldEntries}
        : <<ny, nx>> \in (0..MaxNy) \X (0..MaxNx) }

\* what the caller's Ex and Ey hold before the call: default-constructed,
\* an earlier result of another shape, or non-zero matrices of the shape
\* of the field
PriorFields(field) ==
    {[Ex |-> EmptyMatrix, Ey |-> EmptyMatrix],
     [Ex |-> MatrixOf(1, 2, [p \in (0..0) \X (0..1) |-> R(4)]),
      Ey |-> MatrixOf(1, 2, [p \in (0..0) \X (0..1) |-> R(-4)])],
     [Ex |-> MatrixOf(field.rows, field.cols,
                      [p \in (0..MaxNy) \X (0..MaxNx) |-> R(9)]),
      Ey |-> MatrixOf(field.rows, field.cols,
                      [p \in (0..MaxNy) \X (0..MaxNx) |-> R(-9)])]}

InitField ==
    /\ pc = "reshaped"
    /\ phi_field \in PhiFieldInputs
    /\ \E dx \in Spacings, dy \in Spacings :
          args = [NoArgs EXCEPT !.nx = phi_field.cols, !.ny = phi_field.rows,
                                !.dx = dx, !.dy = dy]
    /\ \E prior \in PriorFields(phi_field) :
          Ex = prior.Ex /\ Ey = prior.Ey
    /\ E_mag = EmptyMatrix
    /\ A = EmptyMatrix
    /\ b = EmptyVector
    /\ phi = EmptyVector
    /\ err = "none"
    /\ ret = NoValue
    /\ EigIdle
    /\ IterIdle
    /\ ParIdle

\* solver.computeElectricField(phi_field, dx, dy, Ex, Ey)
ComputeElectricField ==
    /\ pc = "reshaped"
    /\ LET E == computeElectricField(phi_field, args.dx, args.dy, Ex, Ey)
       IN  Ex' = E.Ex /\ Ey' = E.Ey
    /\ pc' = "field"
    /\ UNCHANGED <<args, sysVars, err, ret, fieldVars, eigVars, iterVars, E_mag, parVars>>

\* Eigen::MatrixXd E_mag = solver.computeFieldMagnitude(Ex, Ey)
ComputeFieldMagnitude ==
    /\ pc = "field"
    /\ E_mag' = computeFieldMagnitude(Ex, Ey)
    /\ pc' = "magnitude"
    /\ UNCHANGED <<args, sysVars, err, ret, fieldVars, eigVars, iterVars, Ex, Ey, parVars>>

NextField == ComputeElectricField \/ ComputeFieldMagnitude

SpecField == InitField /\ [][NextField]_vars

---------------------------------------------------------------------------
(* Claims about the electric field *)

\* the cells of the potential field as (i, j) pairs, and the interior ones
FieldCells == (0..(phi_field.cols - 1)) \X (0..(phi_field.rows - 1))
InteriorCells ==
    {p \in FieldCells :
        /\ 1 <= p[1] /\ p[1] < phi_field.cols - 1
        /\ 1 <= p[2] /\ p[2] < phi_field.rows - 1}

\* C13: after computeElectricField Ex and Ey have the ny-by-nx shape of the
\* potential field whatever they held before; at every interior cell
\* Ex[j][i] = -(phi[j][i+1]-phi[j][i-1])/(2*dx) and
\* Ey[j][i] = -(phi[j+1][i]-phi[j-1][i])/(2*dy); at every boundary cell both
\* are 0, and the field magnitude is 0 there.
C13_CentralDifferenceField ==
    (pc \in {"field", "magnitude"})
    => /\ Ex.rows = phi_field.rows /\ Ex.cols = phi_field.cols
       /\ Ey.rows = phi_field.rows /\ Ey.cols = phi_field.cols
       /\ \A p \in InteriorCells :
              LET i == p[1]
                  j == p[2]
              IN  /\ Ex.coeff[j][i] =
                         RNeg(RDiv(RSub(phi_field.coeff[j][i + 1],
                                        phi_field.coeff[j][i - 1]),
                                   RMul(R(2), args.dx)))
                  /\ Ey.coeff[j][i] =
                         RNeg(RDiv(RSub(phi_field.coeff[j + 1][i],
                                        phi_field.coeff[j - 1][i]),
                                   RMul(R(2), args.dy)))
       /\ \A p \in FieldCells \ InteriorCells :
              /\ Ex.coeff[p[2]][p[1]] = RZero
              /\ Ey.coeff[p[2]][p[1]] = RZero
       /\ (pc = "magnitude")
          => /\ E_mag.rows = phi_field.rows /\ E_mag.cols = phi_field.cols
             /\ \A p \in FieldCells \ InteriorCells :
                    E_mag.coeff[p[2]][p[1]] = Sqrt(RZero)

\* the magnitude of the 4-by-4 plane i + 3j with dx = 1 and dy = 1/2: the
\* field is (-1, -6) at the interior cell (1, 1) and 0 on the boundary
C13_Witness ==
    /\ pc = "magnitude"
    /\ phi_field.rows = 4 /\ phi_field.cols = 4
    /\ args.dx = ROne /\ args.dy = <<1, 2>>
    /\ phi_field.coeff[1][1] = R(4) /\ phi_field.coeff[1][2] = R(5)
    /\ Ex.coeff[1][1] = R(-1) /\ Ey.coeff[1][1] = R(-6)
    /\ E_mag.coeff[1][1] = Sqrt(R(37)) /\ E_mag.coeff[0][1] = Sqrt(RZero)

---------------------------------------------------------------------------
(* The loop body of buildFDMSystem run by concurrent workers, in any order *)

\* the calls whose size check passes, on grids of at most MaxPoints points
ParInputs ==
    {a \in UNION {
            [nx : {nx}, ny : {ny}, dx : {ROne}, dy : {<<1, 2>>},
             rho : {Ramp((nx - 2) * (ny - 2), R(3), R(2))},
             epsilon : {<<1, 2>>},
             boundaryValues : {Ramp(nx * ny - 1, R(-1), <<1, 2>>)}]
            : <<nx, ny>> \in (1..MaxNx) \X (1..MaxNy) } :
        /\ a.nx * a.ny <= MaxPoints
        /\ ~SizeMismatch(VecLen(a.rho), a.nx, a.ny)}

\* the call has passed its size check and has allocated A and b as zero
InitPar ==
    /\ pc = "assembling"
    /\ args \in ParInputs
    /\ A = MatrixZero(args.nx * args.ny, args.nx * args.ny)
    /\ b = VectorZero(args.nx * args.ny)
    /\ err = "none"
    /\ phi = EmptyVector
    /\ phi_field = EmptyMatrix
    /\ ret = NoValue
    /\ EigIdle
    /\ IterIdle
    /\ ParIdle
    /\ GradIdle

\* an idle worker takes a grid point that no worker has taken yet
TakePoint ==
    /\ pc = "assembling"
    /\ Cardinality(taken) < MaxWorkers
    /\ \E p \in GridPoints(args) \ (done \cup taken) :
          taken' = taken \cup {p}
    /\ UNCHANGED <<pc, args, err, ret, sysVars, fieldVars, eigVars, iterVars,
                   gradVars, done>>

\* a worker runs the loop body for its grid point on the shared A and b
AssemblePoint ==
    /\ pc = "assembling"
    /\ \E p \in taken :
          LET sys == PointStep([A |-> A, b |-> b], p[1], p[2], args)
          IN  /\ A' = sys.A
              /\ b' = sys.b
              /\ done' = done \cup {p}
              /\ taken' = taken \ {p}
    /\ UNCHANGED <<pc, args, err, ret, fieldVars, eigVars, iterVars, gradVars>>

\* the final gather: every grid point has been processed
Gather ==
    /\ pc = "assembling"
    /\ done = GridPoints(args)
    /\ pc' = "built"
    /\ UNCHANGED <<args, err, ret, sysVars, fieldVars, eigVars, iterVars,
                   gradVars, parVars>>

NextPar == TakePoint \/ AssemblePoint \/ Gather

SpecPar == InitPar /\ [][NextPar]_vars

\* what the sequential row-major loops of the call build
Sequential == buildFDMSystem(args, EmptyMatrix, EmptyVector)

\* C14: the step for the grid point idx writes only row idx of A and entry
\* idx of b, and what it writes does not depend on what A and b hold, so
\* the points processed in any order, or interleaved by concurrent workers,
\* give exactly the A and b of the sequential row-major loops.
C14_RowsIndependent ==
    /\ [](pc = "built" => (A = Sequential.A /\ b = Sequential.b))
    /\ [][done' # done =>
             \A p \in done' \ done :
                 LET idx == p[2] * args.nx + p[1]
                 IN  /\ \A r \in 0..(A.rows - 1) :
                            r # idx => (A'.coeff[r] = A.coeff[r] /\ b'[r] = b[r])
                     /\ A'.coeff[idx] = Sequential.A.coeff[idx]
                     /\ b'[idx] = Sequential.b[idx]]_vars

\* on the 3-by-3 grid the centre point has been assembled first, before
\* any boundary point, while two workers hold opposite corners
C14_Witness ==
    /\ pc = "assembling"
    /\ args.nx = 3 /\ args.ny = 3
    /\ done = {<<1, 1>>}
    /\ taken = {<<0, 0>>, <<2, 2>>}
    /\ A.coeff[4][4] = Center(args) /\ A.coeff[4][1] = Cy(args)
    /\ b[4] = R(-6)

---------------------------------------------------------------------------
(* solveGMRES called twice on one problem, with two values of restart *)

\* the values of restart a caller passes
Restarts == {DefaultRestart, 1}

\* after a solveGMRES call has returned, the caller keeps what it returned
\* and calls solveGMRES again with the same A, b, maxIterations and
\* tolerance and another restart
SolveGMRESOtherRestart ==
    /\ pc = "returned"
    /\ solver.method = "BiCGSTAB"
    /\ ~prev.called
    /\ \E r \in Restarts \ {args.restart} :
          LET a == [args EXCEPT !.restart = r]
              s == SolverAtEntry("BiCGSTAB", a)
          IN  /\ prev' = [called |-> TRUE, args |-> args, solver |-> solver,
                          ret |-> ret]
              /\ args' = a
              /\ solver' = s
              /\ pc' = IF LoopContinues(s) THEN "iterating" ELSE "finishing"
    /\ UNCHANGED <<err, ret, out, sysVars, fieldVars, eigVars, gradVars, parVars>>

NextRestart == SolveGMRES \/ Iteration \/ Report \/ SolveGMRESOtherRestart

SpecRestart == InitIter /\ [][NextRestart]_vars

============================================================================
